---- MODULE Spec2Model ----
(***************************************************************************)
(* QuickTalk voice-to-text utility: the recording controller of            *)
(* simple_transcriber.py (module-level state, start_recording,             *)
(* stop_recording_and_transcribe, audio_callback, hotkey_listener,         *)
(* exit_listener), the time-warning monitor of simple_visual_indicators.py *)
(* and the session log of session_logger.py.                               *)
(*                                                                         *)
(* Every Python thread is a process with a program counter.  One action is *)
(* one statement of the handler the thread executes; statements that touch *)
(* only the thread's own locals are taken together with the shared access  *)
(* that precedes them, and a test followed by an access whose failure is   *)
(* caught to the same effect as the test (os.path.exists before os.remove, *)
(* `if not audio_frames` before np.concatenate) is one read.               *)
(*                                                                         *)
(* Spec is the controller with its capture streams, timers, pipeline and   *)
(* session log over MaxStarts sessions; SpecExit adds the exit listener;   *)
(* SpecMonitor adds the warning monitor and a clock that runs second by    *)
(* second.  A failure of the environment (device, disk, desktop) may       *)
(* strike at any call that can raise, MaxFaults times in a run; the result *)
(* of the engine (text, no speech, an error) is free at every call.        *)
(***************************************************************************)
EXTENDS Integers, Sequences, FiniteSets, TLC

\* ---------------------------------------------------------------- constants
\* Program constants.
MAX_DURATION_SEC == 1800
WARN_30_SEC == 30
WARN_10_SEC == 10
TICK_SEC == 1

\* Bounds of the model.
NumWorkers == 2     \* dispatch threads the toggle listener has alive at once
MaxStarts == 2      \* start requests the toggle listener dispatches
MaxFrames == 1      \* chunks the sample buffer holds before delivery pauses
MaxTime == 1800     \* the clock stops advancing here
MaxInFlight == 2    \* requests (dispatched or timer-fired) executing at once
MaxFaults == 1      \* failures of the environment (device, disk, desktop) in a run
MaxLate == 1        \* seconds a monitor tick may come after its sleep has ended

Workers == 1..NumWorkers
Sessions == 1..MaxStarts
TimerThread(k) == NumWorkers + k
TimerThreads == {TimerThread(k) : k \in Sessions}
Threads == Workers \cup TimerThreads
None == 0
NoTime == -1

VARIABLES
    \* module globals of simple_transcriber.py
    recording, audio_frames, stream, auto_stop_timer, recording_start_time,
    \* sounddevice streams and their callback threads, by creating session
    streams, cb,
    \* threading.Timer objects, by arming session
    timerDeadline,
    \* threads: program counter and locals
    pc, sid, startedAt, audio_np, logKind, logStart, did,
    \* filesystem and desktop
    wavExists, wavStale, clipboard,
    \* SimpleVisualIndicator and its monitor thread
    vi, monSleep, monLate,
    \* SessionLogger
    recording_count, session_file_path, lastOrdinal, logClosed,
    \* exit listener and process
    exitPc, proc,
    \* wall clock, and the number of sessions begun so far
    now, nSessions,
    \* environment failures injected so far
    faults

vars == <<recording, audio_frames, stream, auto_stop_timer, recording_start_time,
          streams, cb, timerDeadline,
          pc, sid, startedAt, audio_np, logKind, logStart, did,
          wavExists, wavStale, clipboard, vi, monSleep, monLate,
          recording_count, session_file_path, lastOrdinal, logClosed,
          exitPc, proc, now, nSessions, faults>>

ctlVars == <<recording, audio_frames, stream, auto_stop_timer, recording_start_time>>
devVars == <<streams, cb>>
locVars == <<sid, startedAt, audio_np, logKind, logStart, did>>
deskVars == <<wavExists, wavStale, clipboard>>
viVars == <<vi, monSleep, monLate>>
logVars == <<recording_count, session_file_path, lastOrdinal, logClosed>>
exitVars == <<exitPc, proc>>

Running == proc = "running"
\* outcomes of a call into the environment: TRUE it succeeds, FALSE it raises
Outcomes == IF faults < MaxFaults THEN BOOLEAN ELSE {TRUE}
Fault(ok) == faults' = IF ok THEN faults ELSE faults + 1
Goto(t, p) == pc' = [pc EXCEPT ![t] = p]
\* what the call running on thread t has done so far (kept until it returns)
Does(t, what) == did' = [did EXCEPT ![t] = @ \cup what]

\* ---------------------------------------------------------------- Init
Init ==
    /\ recording = FALSE
    /\ audio_frames = <<>>
    /\ stream = None
    /\ auto_stop_timer = None
    /\ recording_start_time = NoTime
    /\ streams = [k \in Sessions |-> "none"]
    /\ cb = [k \in Sessions |-> "idle"]
    /\ timerDeadline = [k \in Sessions |-> NoTime]
    /\ pc = [t \in Threads |-> IF t \in Workers THEN "idle" ELSE "t_none"]
    /\ sid = [t \in Threads |-> None]
    /\ startedAt = [t \in Threads |-> NoTime]
    /\ audio_np = [t \in Threads |-> <<>>]
    /\ logKind = [t \in Threads |-> "none"]
    /\ logStart = [t \in Threads |-> NoTime]
    /\ did = [t \in Threads |-> {}]
    /\ wavExists = FALSE
    /\ wavStale = FALSE
    /\ clipboard = None
    /\ vi = [recording |-> FALSE, start_time |-> NoTime, warning_30_shown |-> FALSE,
             warning_10_shown |-> FALSE, running |-> TRUE, n30 |-> 0, n10 |-> 0]
    /\ monSleep = 0
    /\ monLate = 0
    /\ recording_count = 0
    /\ session_file_path \in BOOLEAN
    /\ lastOrdinal = 0
    /\ logClosed = FALSE
    /\ exitPc = "wait"
    /\ proc = "running"
    /\ now = 0
    /\ nSessions = 0
    \* a session file that could not be created is a failure of the environment
    /\ faults = IF session_file_path THEN 0 ELSE 1

\* ---------------------------------------------------------------- hotkey_listener
\* keyboard.wait returned: read `recording` and hand the request to a new thread.
ToggleTarget(rec) == IF rec THEN "stop_check" ELSE "start_check"

StartsDispatched ==
    nSessions + Cardinality({t \in Workers : pc[t] \in {"start_check", "start_reset"}})

\* requests executing: threads inside start_recording or stop_recording_and_transcribe
InFlight ==
    Cardinality({t \in Threads :
                    pc[t] \notin {"idle", "t_none", "t_pending", "t_cancelled", "t_done"}})

\* the new thread is the first free slot (threads are interchangeable)
Toggle(w) ==
    /\ Running
    /\ pc[w] = "idle"
    /\ \A v \in Workers : v < w => pc[v] # "idle"
    /\ InFlight < MaxInFlight
    /\ recording \/ StartsDispatched < MaxStarts
    /\ Goto(w, ToggleTarget(recording))
    /\ UNCHANGED <<ctlVars, devVars, timerDeadline, locVars, deskVars, viVars,
                   logVars, exitVars, now, nSessions, faults>>

\* keyboard.wait raised: `except Exception: logging.error(...); break`.  The loop
\* ends, hotkey_listener returns to main, main returns and the interpreter
\* exits; every other thread is a daemon thread and ends with it.
HotkeyFails ==
    /\ Running
    /\ exitPc = "wait"
    /\ proc' = "returned"
    /\ UNCHANGED <<ctlVars, devVars, timerDeadline, pc, locVars, deskVars, viVars,
                   logVars, exitPc, now, nSessions, faults>>

\* ---------------------------------------------------------------- start_recording
\* a start that never tests the flag
StartRejectedNever(rec) == FALSE

\* `if recording: return`
StartRejected(rec) == rec

StartCheck(t) ==
    /\ Running
    /\ pc[t] = "start_check"
    /\ Goto(t, IF StartRejected(recording) THEN "idle" ELSE "start_reset")
    /\ UNCHANGED <<ctlVars, devVars, timerDeadline, locVars, deskVars, viVars,
                   logVars, exitVars, now, nSessions, faults>>

\* audio_frames = []; recording = True; recording_start_time = time.time()
StartReset(t) ==
    /\ Running
    /\ pc[t] = "start_reset"
    /\ audio_frames' = <<>>
    /\ recording' = TRUE
    /\ recording_start_time' = now
    /\ nSessions' = nSessions + 1
    /\ sid' = [sid EXCEPT ![t] = nSessions + 1]
    /\ Goto(t, "start_open")
    /\ UNCHANGED <<stream, auto_stop_timer, devVars, timerDeadline, startedAt, audio_np,
                   logKind, logStart, did, deskVars, viVars, logVars, exitVars, now, faults>>

\* stream = sd.InputStream(...); stream.start()   -- either may raise
StartOpen(t) ==
    /\ Running
    /\ pc[t] = "start_open"
    /\ \E res \in {"ok"} \cup (IF faults < MaxFaults THEN {"open_fails", "start_fails"} ELSE {}) :
        /\ Fault(res = "ok")
        /\ streams' = [streams EXCEPT ![sid[t]] =
                          CASE res = "ok" -> "active"
                            [] res = "start_fails" -> "open"
                            [] OTHER -> @]
        /\ stream' = IF res = "open_fails" THEN stream ELSE sid[t]
        /\ Goto(t, IF res = "ok" THEN "start_vi" ELSE "start_except")
    /\ UNCHANGED <<recording, audio_frames, auto_stop_timer, recording_start_time,
                   cb, timerDeadline, locVars, deskVars, viVars, logVars,
                   exitVars, now, nSessions>>

\* visual_indicator.start_recording()
StartVi(t) ==
    /\ Running
    /\ pc[t] = "start_vi"
    /\ vi' = [vi EXCEPT !.recording = TRUE, !.start_time = now,
                        !.warning_30_shown = FALSE, !.warning_10_shown = FALSE,
                        !.n30 = 0, !.n10 = 0]
    /\ Goto(t, "start_timer")
    /\ UNCHANGED <<ctlVars, devVars, timerDeadline, locVars, deskVars, monSleep,
                   monLate, logVars, exitVars, now, nSessions, faults>>

\* auto_stop_timer = threading.Timer(MAX_DURATION_SEC, stop_recording_and_transcribe)
\* auto_stop_timer.start()
TimerInterval == MAX_DURATION_SEC

StartTimer(t) ==
    /\ Running
    /\ pc[t] = "start_timer"
    /\ auto_stop_timer' = TimerThread(sid[t])
    /\ timerDeadline' = [timerDeadline EXCEPT ![sid[t]] = now + TimerInterval]
    /\ pc' = [pc EXCEPT ![t] = "idle", ![TimerThread(sid[t])] = "t_pending"]
    /\ sid' = [sid EXCEPT ![t] = None]
    /\ UNCHANGED <<recording, audio_frames, stream, recording_start_time, devVars,
                   startedAt, audio_np, logKind, logStart, did, deskVars, viVars, logVars,
                   exitVars, now, nSessions, faults>>

\* a handler that leaves the flag set
StartExceptKeeps(t) ==
    /\ Running
    /\ pc[t] = "start_except"
    /\ Goto(t, "idle")
    /\ sid' = [sid EXCEPT ![t] = None]
    /\ UNCHANGED <<ctlVars, devVars, timerDeadline, startedAt, audio_np, logKind,
                   logStart, did, deskVars, viVars, logVars, exitVars, now,
                   nSessions, faults>>

\* except Exception: recording = False
StartExcept(t) ==
    /\ Running
    /\ pc[t] = "start_except"
    /\ recording' = FALSE
    /\ Goto(t, "idle")
    /\ sid' = [sid EXCEPT ![t] = None]
    /\ UNCHANGED <<audio_frames, stream, auto_stop_timer, recording_start_time,
                   devVars, timerDeadline, startedAt, audio_np, logKind, logStart,
                   did, deskVars, viVars, logVars, exitVars, now, nSessions, faults>>

\* ---------------------------------------------------------------- audio_callback
\* `if recording:` -- the chunk is dropped unless the flag is set
CallbackKeeps(rec) == rec

Deliver(k) ==
    /\ Running
    /\ streams[k] = "active"
    /\ cb[k] = "idle"
    /\ Len(audio_frames) < MaxFrames
    /\ cb' = [cb EXCEPT ![k] = IF CallbackKeeps(recording) THEN "append" ELSE "idle"]
    /\ UNCHANGED <<ctlVars, streams, timerDeadline, pc, locVars, deskVars, viVars,
                   logVars, exitVars, now, nSessions, faults>>

\* audio_frames.append(indata.copy())
AppendChunk(k) ==
    /\ Running
    /\ cb[k] = "append"
    /\ audio_frames' = Append(audio_frames, k)
    /\ cb' = [cb EXCEPT ![k] = "idle"]
    /\ UNCHANGED <<recording, stream, auto_stop_timer, recording_start_time, streams,
                   timerDeadline, pc, locVars, deskVars, viVars, logVars,
                   exitVars, now, nSessions, faults>>

\* ---------------------------------------------------------------- stop_recording_and_transcribe
Returned(t) == IF t \in Workers THEN "idle" ELSE "t_done"

ClearLocals(t) ==
    /\ sid' = [sid EXCEPT ![t] = None]
    /\ startedAt' = [startedAt EXCEPT ![t] = NoTime]
    /\ audio_np' = [audio_np EXCEPT ![t] = <<>>]
    /\ logKind' = [logKind EXCEPT ![t] = "none"]
    /\ logStart' = [logStart EXCEPT ![t] = NoTime]
    /\ did' = [did EXCEPT ![t] = {}]

\* `if not recording: return`
StopRejected(rec) == ~rec

StopCheck(t) ==
    /\ Running
    /\ pc[t] = "stop_check"
    /\ Goto(t, IF StopRejected(recording) THEN Returned(t) ELSE "stop_clear")
    /\ UNCHANGED <<ctlVars, devVars, timerDeadline, locVars, deskVars, viVars,
                   logVars, exitVars, now, nSessions, faults>>

\* recording = False
\* (sid, startedAt: the session this call stops and when that session started)
StopClear(t) ==
    /\ Running
    /\ pc[t] = "stop_clear"
    /\ recording' = FALSE
    /\ sid' = [sid EXCEPT ![t] = nSessions]
    /\ startedAt' = [startedAt EXCEPT ![t] = recording_start_time]
    /\ Goto(t, "stop_vi")
    /\ UNCHANGED <<audio_frames, stream, auto_stop_timer, recording_start_time,
                   devVars, timerDeadline, audio_np, logKind, logStart, did,
                   deskVars, viVars, logVars, exitVars, now, nSessions, faults>>

\* visual_indicator.stop_recording()
StopVi(t) ==
    /\ Running
    /\ pc[t] = "stop_vi"
    /\ vi' = [vi EXCEPT !.recording = FALSE]
    /\ Goto(t, "stop_cancel")
    /\ UNCHANGED <<ctlVars, devVars, timerDeadline, locVars, deskVars, monSleep,
                   monLate, logVars, exitVars, now, nSessions, faults>>

\* Timer.is_alive(): started and its thread has not ended
IsAlive(tt) == pc[tt] \notin {"t_none", "t_cancelled", "t_done"}

\* Timer.cancel(): a timer still waiting never runs; one already running is unaffected
Cancelled(tt, p) == IF p[tt] = "t_pending" THEN [p EXCEPT ![tt] = "t_cancelled"] ELSE p

\* if auto_stop_timer and auto_stop_timer.is_alive(): auto_stop_timer.cancel()
StopCancel(t) ==
    /\ Running
    /\ pc[t] = "stop_cancel"
    /\ pc' = [(IF auto_stop_timer # None /\ IsAlive(auto_stop_timer)
               THEN Cancelled(auto_stop_timer, pc) ELSE pc) EXCEPT ![t] = "stop_stream"]
    /\ UNCHANGED <<ctlVars, devVars, timerDeadline, locVars, deskVars, viVars,
                   logVars, exitVars, now, nSessions, faults>>

\* if stream: stream.stop(); stream.close(); stream = None
\* (stop() returns once the stream's callback has returned)
StopStream(t) ==
    /\ Running
    /\ pc[t] = "stop_stream"
    /\ stream # None => cb[stream] = "idle"
    /\ streams' = IF stream # None THEN [streams EXCEPT ![stream] = "closed"] ELSE streams
    /\ stream' = None
    /\ Goto(t, "stop_read")
    /\ UNCHANGED <<recording, audio_frames, auto_stop_timer, recording_start_time,
                   cb, timerDeadline, locVars, deskVars, viVars, logVars,
                   exitVars, now, nSessions, faults>>

\* the test removed: every buffer goes on to be written and transcribed
NoAudioNever(frames) == FALSE

\* `if not audio_frames: return`
NoAudio(frames) == frames = <<>>

\* if not audio_frames: return
\* audio_np = np.concatenate(audio_frames, axis=0).flatten()
StopRead(t) ==
    /\ Running
    /\ pc[t] = "stop_read"
    /\ IF NoAudio(audio_frames)
       THEN Goto(t, "stop_finally") /\ audio_np' = audio_np
       ELSE Goto(t, "stop_write") /\ audio_np' = [audio_np EXCEPT ![t] = audio_frames]
    /\ UNCHANGED <<ctlVars, devVars, timerDeadline, sid, startedAt, logKind, logStart,
                   did, deskVars, viVars, logVars, exitVars, now, nSessions, faults>>

\* the three WAV writers in turn; `if not wav_saved: return`
StopWrite(t) ==
    /\ Running
    /\ pc[t] = "stop_write"
    /\ \E wav_saved \in Outcomes :
        /\ Fault(wav_saved)
        /\ wavExists' = (wavExists \/ wav_saved)
        /\ Does(t, IF wav_saved THEN {"wav"} ELSE {})
        /\ Goto(t, IF wav_saved THEN "stop_engine" ELSE "stop_finally")
    /\ UNCHANGED <<ctlVars, devVars, timerDeadline, sid, startedAt, audio_np, logKind,
                   logStart, wavStale, clipboard, viVars, logVars, exitVars, now,
                   nSessions>>

\* if not os.path.exists(TEMP_WAV_PATH): return
\* result = model.transcribe(audio_np, fp16=False); text = result.get('text', '').strip()
\* (the transcript of a session's audio is identified by the session)
StopEngine(t) ==
    /\ Running
    /\ pc[t] = "stop_engine"
    /\ IF ~wavExists
       THEN Goto(t, "stop_finally") /\ UNCHANGED <<logKind, did>>
       ELSE /\ \E res \in {"ok", "nospeech", "fail"} :
                 /\ logKind' = [logKind EXCEPT ![t] = res]
                 /\ Does(t, {"engine"} \cup (IF res = "ok" THEN {"text"} ELSE {})
                                      \cup (IF res = "fail" THEN {"raised"} ELSE {}))
            /\ Goto(t, "log_call")
    /\ UNCHANGED <<ctlVars, devVars, timerDeadline, sid, startedAt, audio_np, logStart,
                   deskVars, viVars, logVars, exitVars, now, nSessions, faults>>

\* ---------------------------------------------------------------- SessionLogger
\* log_transcription / log_error, up to the increment:
\*   if not self.session_file_path: return False
\*   self.recording_count += 1
\* The caller reads recording_start_time for the entry just before the call.
\* every outcome delivered to the clipboard, whatever the engine returned
AfterLogAlways(kind) == "stop_copy"

AfterLog(kind) == IF kind = "ok" THEN "stop_copy" ELSE "stop_finally"
Shown(kind) == IF kind = "ok" THEN "complete" ELSE "error"
Entry(kind) == IF kind = "ok" THEN "ok_entry" ELSE "err_entry"

\* a logger that counts the recording before it looks for its file
LogCallCounts(t) ==
    /\ Running
    /\ pc[t] = "log_call"
    /\ logStart' = [logStart EXCEPT ![t] = recording_start_time]
    /\ recording_count' = recording_count + 1
    /\ IF session_file_path
       THEN /\ Goto(t, "log_write")
            /\ did' = did
       ELSE /\ Goto(t, AfterLog(logKind[t]))
            /\ Does(t, {Shown(logKind[t])})
    /\ UNCHANGED <<ctlVars, devVars, timerDeadline, sid, startedAt, audio_np, logKind,
                   deskVars, viVars, session_file_path, lastOrdinal, logClosed,
                   exitVars, now, nSessions, faults>>

LogCall(t) ==
    /\ Running
    /\ pc[t] = "log_call"
    /\ logStart' = [logStart EXCEPT ![t] = recording_start_time]
    /\ IF session_file_path
       THEN /\ recording_count' = recording_count + 1
            /\ Goto(t, "log_write")
            /\ did' = did
       ELSE /\ recording_count' = recording_count
            /\ Goto(t, AfterLog(logKind[t]))
            /\ Does(t, {Shown(logKind[t])})
    /\ UNCHANGED <<ctlVars, devVars, timerDeadline, sid, startedAt, audio_np, logKind,
                   deskVars, viVars, session_file_path, lastOrdinal, logClosed,
                   exitVars, now, nSessions, faults>>

\* f.write(f"[{timestamp_str}] Recording #{self.recording_count} ...")
EntryOrdinal(count) == count

\* the append to the session file (open or write may raise: caught, returns False),
\* then visual_indicator.transcription_complete(text) / show_error(...)
LogWrite(t) ==
    /\ Running
    /\ pc[t] = "log_write"
    /\ \E written \in Outcomes :
        /\ Fault(written)
        /\ lastOrdinal' = IF written THEN EntryOrdinal(recording_count) ELSE lastOrdinal
        /\ Does(t, {Shown(logKind[t])} \cup (IF written THEN {Entry(logKind[t])} ELSE {}))
    /\ Goto(t, AfterLog(logKind[t]))
    /\ UNCHANGED <<ctlVars, devVars, timerDeadline, sid, startedAt, audio_np, logKind,
                   logStart, deskVars, viVars, recording_count, session_file_path,
                   logClosed, exitVars, now, nSessions>>

\* ---------------------------------------------------------------- delivery
\* pyperclip.copy(text)   -- may raise: handled by `except Exception as transcribe_error`
StopCopy(t) ==
    /\ Running
    /\ pc[t] = "stop_copy"
    /\ \E ok \in Outcomes :
        /\ Fault(ok)
        /\ IF ok
           THEN /\ clipboard' = sid[t]
                /\ Does(t, {"copy"})
                /\ Goto(t, "stop_paste")
                /\ logKind' = logKind
           ELSE /\ clipboard' = clipboard
                /\ did' = did
                /\ Goto(t, "log_call")
                /\ logKind' = [logKind EXCEPT ![t] = "fail"]
    /\ UNCHANGED <<ctlVars, devVars, timerDeadline, sid, startedAt, audio_np, logStart,
                   wavExists, wavStale, viVars, logVars, exitVars, now, nSessions>>

\* pyautogui.hotkey('ctrl', 'v')   -- pastes whatever the clipboard holds; may raise
StopPaste(t) ==
    /\ Running
    /\ pc[t] = "stop_paste"
    /\ \E ok \in Outcomes :
        /\ Fault(ok)
        /\ IF ok
           THEN /\ Does(t, {IF clipboard = sid[t] THEN "paste" ELSE "paste_other"})
                /\ Goto(t, "stop_finally")
                /\ logKind' = logKind
           ELSE /\ did' = did
                /\ Goto(t, "log_call")
                /\ logKind' = [logKind EXCEPT ![t] = "fail"]
    /\ UNCHANGED <<ctlVars, devVars, timerDeadline, sid, startedAt, audio_np, logStart,
                   deskVars, viVars, logVars, exitVars, now, nSessions>>

\* ---------------------------------------------------------------- finally
\* if os.path.exists(TEMP_WAV_PATH):
\*     try: os.remove(TEMP_WAV_PATH)  except Exception: logging.warning(...)
CleanupWanted(exists) == exists

\* a removal whose exception leaves the finally block: the call never returns
StopFinallyEscapes(t) ==
    /\ Running
    /\ pc[t] = "stop_finally"
    /\ IF CleanupWanted(wavExists)
       THEN \E removed \in Outcomes :
               /\ Fault(removed)
               /\ wavExists' = ~removed
               /\ wavStale' = ~removed
               /\ Goto(t, IF removed THEN Returned(t) ELSE "escaped")
       ELSE Goto(t, Returned(t)) /\ UNCHANGED <<wavExists, wavStale, faults>>
    /\ ClearLocals(t)
    /\ UNCHANGED <<ctlVars, devVars, timerDeadline, clipboard, viVars, logVars,
                   exitVars, now, nSessions>>

StopFinally(t) ==
    /\ Running
    /\ pc[t] = "stop_finally"
    /\ IF CleanupWanted(wavExists)
       THEN \E removed \in Outcomes :
               /\ Fault(removed)
               /\ wavExists' = ~removed
               /\ wavStale' = ~removed
       ELSE UNCHANGED <<wavExists, wavStale, faults>>
    /\ Goto(t, Returned(t))
    /\ ClearLocals(t)
    /\ UNCHANGED <<ctlVars, devVars, timerDeadline, clipboard, viVars, logVars,
                   exitVars, now, nSessions>>

\* ---------------------------------------------------------------- threading.Timer
\* the timer thread wakes after its interval and calls stop_recording_and_transcribe
TimerDue(k) == now >= timerDeadline[k]

TimerFire(k) ==
    /\ Running
    /\ pc[TimerThread(k)] = "t_pending"
    /\ TimerDue(k)
    /\ InFlight < MaxInFlight
    /\ Goto(TimerThread(k), "stop_check")
    /\ UNCHANGED <<ctlVars, devVars, timerDeadline, locVars, deskVars, viVars,
                   logVars, exitVars, now, nSessions, faults>>

\* ---------------------------------------------------------------- _monitor_recording_time
Max(a, b) == IF a >= b THEN a ELSE b
Min(S) == CHOOSE x \in S : \A y \in S : x <= y

\* remaining = max(0, self.max_duration_sec - elapsed)
Remaining == Max(0, MAX_DURATION_SEC - (now - vi.start_time))

\* remaining <= 30 and remaining > 29
Warn30Due(remaining) == remaining <= WARN_30_SEC /\ remaining > WARN_30_SEC - 1
\* remaining <= 10 and remaining > 9
Warn10Due(remaining) == remaining <= WARN_10_SEC /\ remaining > WARN_10_SEC - 1

\* if self.recording and self.start_time:
Watching == vi.recording /\ vi.start_time # NoTime
Fire30 == Watching /\ Warn30Due(Remaining) /\ ~vi.warning_30_shown
Fire10 == Watching /\ Warn10Due(Remaining) /\ ~vi.warning_10_shown

\* a monitor that ends the capture itself once no time remains
MonitorCheckStops ==
    /\ Running
    /\ vi.running
    /\ monSleep = 0
    /\ vi' = [vi EXCEPT !.warning_30_shown = @ \/ Fire30,
                        !.warning_10_shown = @ \/ Fire10,
                        !.n30 = @ + (IF Fire30 THEN 1 ELSE 0),
                        !.n10 = @ + (IF Fire10 THEN 1 ELSE 0)]
    /\ monSleep' = TICK_SEC
    /\ monLate' = 0
    /\ recording' = (recording /\ ~(Watching /\ Remaining = 0))
    /\ UNCHANGED <<audio_frames, stream, auto_stop_timer, recording_start_time,
                   devVars, timerDeadline, pc, locVars, deskVars, logVars,
                   exitVars, now, nSessions, faults>>

\* one pass of the loop body, then time.sleep(1)
MonitorCheck ==
    /\ Running
    /\ vi.running
    /\ monSleep = 0
    /\ vi' = [vi EXCEPT !.warning_30_shown = @ \/ Fire30,
                        !.warning_10_shown = @ \/ Fire10,
                        !.n30 = @ + (IF Fire30 THEN 1 ELSE 0),
                        !.n10 = @ + (IF Fire10 THEN 1 ELSE 0)]
    /\ monSleep' = TICK_SEC
    /\ monLate' = 0
    /\ UNCHANGED <<ctlVars, devVars, timerDeadline, pc, locVars, deskVars, logVars,
                   exitVars, now, nSessions, faults>>

\* ---------------------------------------------------------------- exit_listener
\* keyboard.wait(EXIT_HOTKEY) returned
ExitTrigger ==
    /\ Running
    /\ exitPc = "wait"
    /\ exitPc' = "e_stream"
    /\ UNCHANGED <<ctlVars, devVars, timerDeadline, pc, locVars, deskVars, viVars,
                   logVars, proc, now, nSessions, faults>>

\* if recording and stream: stream.stop(); stream.close()
ExitStream ==
    /\ Running
    /\ exitPc = "e_stream"
    /\ (recording /\ stream # None) => cb[stream] = "idle"
    /\ streams' = IF recording /\ stream # None
                  THEN [streams EXCEPT ![stream] = "closed"] ELSE streams
    /\ exitPc' = "e_remove"
    /\ UNCHANGED <<ctlVars, cb, timerDeadline, pc, locVars, deskVars, viVars,
                   logVars, proc, now, nSessions, faults>>

\* a removal whose exception leaves exit_listener: the thread ends, the process stays
ExitRemoveEscapes ==
    /\ Running
    /\ exitPc = "e_remove"
    /\ IF wavExists
       THEN \E removed \in Outcomes :
               /\ Fault(removed)
               /\ wavExists' = ~removed
               /\ wavStale' = ~removed
               /\ exitPc' = IF removed THEN "e_log" ELSE "e_failed"
               /\ proc' = proc
       ELSE /\ exitPc' = "e_log"
            /\ UNCHANGED <<wavExists, wavStale, proc, faults>>
    /\ UNCHANGED <<ctlVars, devVars, timerDeadline, pc, locVars, clipboard,
                   viVars, logVars, now, nSessions>>

\* if os.path.exists(TEMP_WAV_PATH): os.remove(TEMP_WAV_PATH)
\* a failure reaches `except Exception: os._exit(1)`
ExitRemove ==
    /\ Running
    /\ exitPc = "e_remove"
    /\ IF wavExists
       THEN \E removed \in Outcomes :
               /\ Fault(removed)
               /\ wavExists' = ~removed
               /\ wavStale' = ~removed
               /\ exitPc' = IF removed THEN "e_log" ELSE "e_failed"
               /\ proc' = IF removed THEN proc ELSE "exit1"
       ELSE /\ exitPc' = "e_log"
            /\ UNCHANGED <<wavExists, wavStale, proc, faults>>
    /\ UNCHANGED <<ctlVars, devVars, timerDeadline, pc, locVars, clipboard,
                   viVars, logVars, now, nSessions>>

\* if session_logger: session_logger.close_session()
\* (returns False without raising when there is no file or the append fails)
ExitLog ==
    /\ Running
    /\ exitPc = "e_log"
    /\ \E written \in Outcomes :
        /\ Fault(written)
        /\ logClosed' = (session_file_path /\ written)
    /\ exitPc' = "e_vi"
    /\ UNCHANGED <<ctlVars, devVars, timerDeadline, pc, locVars, deskVars, viVars,
                   recording_count, session_file_path, lastOrdinal, proc, now,
                   nSessions>>

\* if visual_indicator: visual_indicator.cleanup();  os._exit(0)
ExitVi ==
    /\ Running
    /\ exitPc = "e_vi"
    /\ vi' = [vi EXCEPT !.running = FALSE]
    /\ exitPc' = "e_done"
    /\ proc' = "exit0"
    /\ UNCHANGED <<ctlVars, devVars, timerDeadline, pc, locVars, deskVars, monSleep,
                   monLate, logVars, now, nSessions, faults>>

\* ---------------------------------------------------------------- time
\* The deadlines of the timers that are waiting.
TimerInstants ==
    {timerDeadline[k] : k \in {j \in Sessions : pc[TimerThread(j)] = "t_pending"}}

\* Time passes up to the next instant at which a timer falls due; nothing the
\* controller reads changes in between.
Advance ==
    /\ Running
    /\ \E T \in {{i \in TimerInstants : i > now /\ i <= MaxTime}} :
        /\ T # {}
        /\ now' = Min(T)
        /\ monSleep' = Max(0, monSleep - (Min(T) - now))
    /\ monLate' = 0
    /\ UNCHANGED <<ctlVars, devVars, timerDeadline, pc, locVars, deskVars, vi,
                   logVars, exitVars, nSessions, faults>>

\* Second by second, for the monitor: time is observed while a capture waits for
\* its deadline and no request is being handled.  The monitor's sleep runs down;
\* once it has ended, the monitor may be scheduled up to MaxLate seconds late.
Tick ==
    /\ Running
    /\ now < MaxTime
    /\ InFlight = 0
    /\ TimerInstants # {}
    /\ monSleep > 0 \/ monLate < MaxLate
    /\ now' = now + 1
    /\ monLate' = IF monSleep = 0 THEN monLate + 1 ELSE 0
    /\ monSleep' = Max(0, monSleep - 1)
    /\ UNCHANGED <<ctlVars, devVars, timerDeadline, pc, locVars, deskVars, vi,
                   logVars, exitVars, nSessions, faults>>

\* ---------------------------------------------------------------- specification
StartStep(t) ==
    \/ StartCheck(t) \/ StartReset(t) \/ StartOpen(t)
    \/ StartVi(t) \/ StartTimer(t) \/ StartExcept(t)

StopStep(t) ==
    \/ StopCheck(t) \/ StopClear(t) \/ StopVi(t) \/ StopCancel(t)
    \/ StopStream(t) \/ StopRead(t) \/ StopWrite(t) \/ StopEngine(t)
    \/ LogCall(t) \/ LogWrite(t) \/ StopCopy(t) \/ StopPaste(t) \/ StopFinally(t)

Next ==
    \/ \E w \in Workers : Toggle(w)
    \/ \E t \in Workers : StartStep(t)
    \/ \E k \in Sessions : Deliver(k) \/ AppendChunk(k) \/ TimerFire(k)
    \/ \E t \in Threads : StopStep(t)
    \/ Advance

Spec == Init /\ [][Next]_vars

\* The exit listener beside the controller, over one session.
FirstSession(w) == (recording \/ StartsDispatched < 1) /\ Toggle(w)

ExitStep == ExitTrigger \/ ExitStream \/ ExitRemove \/ ExitLog \/ ExitVi

NextExit ==
    \/ \E w \in Workers : FirstSession(w)
    \/ \E t \in Workers : StartStep(t)
    \/ \E k \in Sessions : Deliver(k) \/ AppendChunk(k) \/ TimerFire(k)
    \/ \E t \in Threads : StopStep(t)
    \/ Advance
    \/ ExitStep

SpecExit == Init /\ [][NextExit]_vars

\* The same, with the exit-listener thread and the stream's callback thread
\* scheduled: a thread that can take a step eventually takes one.
SpecExitFair ==
    /\ Init /\ [][NextExit]_vars
    /\ WF_vars(ExitStep)
    /\ \A k \in Sessions : WF_vars(AppendChunk(k))

\* One session of the controller alone, with every thread scheduled: a request
\* thread, a timer thread or a callback that can take a step eventually takes
\* one (the engine call returns or raises).
NextSession ==
    \/ \E w \in Workers : FirstSession(w)
    \/ \E t \in Workers : StartStep(t)
    \/ \E k \in Sessions : Deliver(k) \/ AppendChunk(k) \/ TimerFire(k)
    \/ \E t \in Threads : StopStep(t)
    \/ Advance

SpecSessionFair ==
    /\ Init /\ [][NextSession]_vars
    /\ \A t \in Threads : WF_vars(StopStep(t))
    /\ \A k \in Sessions : WF_vars(AppendChunk(k))

\* The same with a hotkey source that can fail under the toggle listener.
NextDispatch ==
    \/ \E w \in Workers : FirstSession(w)
    \/ \E t \in Workers : StartStep(t)
    \/ \E k \in Sessions : Deliver(k) \/ AppendChunk(k) \/ TimerFire(k)
    \/ \E t \in Threads : StopStep(t)
    \/ Advance
    \/ ExitStep
    \/ HotkeyFails

SpecDispatch == Init /\ [][NextDispatch]_vars

\* The warning monitor beside the controller, for captures that run to their
\* deadline: the hotkey starts sessions and never stops one.
StartOnly(w) == ~recording /\ Toggle(w)

NextMonitor ==
    \/ \E w \in Workers : StartOnly(w)
    \/ \E t \in Workers : StartStep(t)
    \/ \E k \in Sessions : Deliver(k) \/ AppendChunk(k) \/ TimerFire(k)
    \/ \E t \in Threads : StopStep(t)
    \/ MonitorCheck
    \/ Tick

SpecMonitor == Init /\ [][NextMonitor]_vars

\* The warning monitor beside one session that the hotkey starts and, within
\* the same second, stops; later only the session's timer issues requests.
EarlyToggle(w) == now = 0 /\ FirstSession(w)

NextWatch ==
    \/ \E w \in Workers : EarlyToggle(w)
    \/ \E t \in Workers : StartStep(t)
    \/ \E k \in Sessions : Deliver(k) \/ AppendChunk(k) \/ TimerFire(k)
    \/ \E t \in Threads : StopStep(t)
    \/ MonitorCheck
    \/ Tick

SpecWatch == Init /\ [][NextWatch]_vars

\* ---------------------------------------------------------------- properties
\* a stop_recording_and_transcribe call past `recording = False`, not yet returned
Stopping(t) ==
    pc[t] \in {"stop_vi", "stop_cancel", "stop_stream", "stop_read", "stop_write",
               "stop_engine", "log_call", "log_write", "stop_copy", "stop_paste",
               "stop_finally"}

\* no request is being handled: every start and stop call has returned
Quiet == InFlight = 0

\* C1: at most one capture runs at any time; two start_recording calls running
\* concurrently never both open a capture stream.
AtMostOneCapture == Cardinality({k \in Sessions : streams[k] = "active"}) <= 1

\* C2: of the stop calls made for one session only one goes on to the engine;
\* no two calls transcribe for the same session.
OneTranscriptionPerSession ==
    \A t, u \in Threads :
        (t # u /\ "engine" \in did[t] /\ "engine" \in did[u]) => sid[t] # sid[u]

\* C3: a start request tested while a stop call has cleared the flag and has not
\* yet returned is a no-op; it never goes on to begin a capture.
StartRejectedWhileStopping ==
    [][\A w \in Workers :
          (pc[w] = "start_check" /\ pc'[w] = "start_reset")
              => ~(\E t \in Threads : Stopping(t))]_vars

\* C4: whenever every stop call has returned, on whatever path, the temporary
\* audio file does not exist.
ArtifactGoneWhenIdle == Quiet => ~wavExists

SuccessDelivered ==
    \A t \in Threads :
        (pc[t] = "stop_finally" /\ "text" \in did[t]) =>
            /\ {"copy", "paste", "complete"} \subseteq did[t]
            /\ did[t] \cap {"err_entry", "error", "paste_other"} = {}
            /\ "ok_entry" \in did[t] => logStart[t] = startedAt[t]

\* C7: a stop call whose engine run raised shows an error event, writes nothing to
\* the clipboard and pastes nothing, and when it returns the temporary audio file
\* is gone.
EngineErrorCleansUp ==
    [][\A t \in Threads :
          ("raised" \in did[t] /\ pc[t] = "stop_finally" /\ pc'[t] = Returned(t)) =>
              /\ "error" \in did[t]
              /\ did[t] \cap {"copy", "paste", "paste_other"} = {}
              /\ ~wavExists']_vars

\* C8: when the process has terminated after an exit trigger, the exit handler has
\* run to its end: the temporary audio file is gone, close_session has been
\* called and the indicator has been cleaned up.
ExitTeardownComplete ==
    proc # "running" => (~wavExists /\ exitPc = "e_done" /\ ~vi.running)

\* C9: a capture that no request is stopping has its auto-stop timer pending, so
\* that without a manual stop it still comes to an end.
CaptureHasTimer ==
    (Quiet /\ recording) => \E k \in Sessions : pc[TimerThread(k)] = "t_pending"

\* C10: a session that has captured up to its deadline has been given exactly one
\* 30-seconds warning and exactly one 10-seconds warning.
WarningsAtDeadline ==
    \A k \in Sessions :
        (/\ pc[TimerThread(k)] = "t_pending"
         /\ TimerDue(k)
         /\ vi.recording
         /\ vi.start_time + MAX_DURATION_SEC = timerDeadline[k])
            => (vi.n30 = 1 /\ vi.n10 = 1)

\* C11: every entry appended to the session file carries an ordinal greater than
\* the ordinal of the entry appended before it; no ordinal is written twice.
OrdinalsIncrease ==
    [][\A t \in Threads :
          (/\ pc[t] = "log_write"
           /\ Entry(logKind[t]) \notin did[t]
           /\ Entry(logKind[t]) \in did'[t])
              => lastOrdinal' > lastOrdinal]_vars

\* C12: a stop call whose engine run returned no text has, at the end of its
\* pipeline, shown the error event, written the failure entry (when nothing in
\* the environment has failed), copied nothing and pasted nothing.
NoSpeechReported ==
    \A t \in Threads :
        (pc[t] = "stop_finally" /\ logKind[t] = "nospeech") =>
            /\ "error" \in did[t]
            /\ (session_file_path /\ faults = 0) => "err_entry" \in did[t]
            /\ did[t] \cap {"copy", "paste", "paste_other", "complete", "ok_entry"} = {}

\* C12 (witness): a call ended its pipeline after the engine returned no text
NoSpeechEnded ==
    \E t \in Threads :
        pc[t] = "stop_finally" /\ logKind[t] = "nospeech" /\ "err_entry" \in did[t]

\* C13: a stop call that held captured audio and could not serialize it (no WAV
\* writer succeeded, or the file was missing afterwards) has, at the end of its
\* pipeline, written a failure entry and shown the error event.
SerializationFailureReported ==
    \A t \in Threads :
        (pc[t] = "stop_finally" /\ audio_np[t] # <<>> /\ "engine" \notin did[t])
            => (session_file_path => "err_entry" \in did[t]) /\ "error" \in did[t]

\* C14: a stop call that found the sample buffer empty has, at the end of its
\* pipeline, delivered a "no audio" event to the session log or the indicator.
NoAudioReported ==
    \A t \in Threads :
        (pc[t] = "stop_finally" /\ sid[t] # None /\ audio_np[t] = <<>>)
            => did[t] \cap {"err_entry", "error"} # {}

\* C15: a start call that finds the flag set, and a stop call that finds it
\* clear, return at once: the controller's variables, the streams, the timers,
\* the indicator, the session log, the clipboard and the temp file are as
\* before, and the call has produced no event.
RejectedChangesNothing ==
    [][\A t \in Threads :
          /\ (pc[t] = "start_check" /\ recording /\ pc'[t] # pc[t]) =>
                 /\ pc'[t] = "idle"
                 /\ UNCHANGED <<ctlVars, devVars, timerDeadline, locVars, deskVars,
                                viVars, logVars>>
          /\ (pc[t] = "stop_check" /\ ~recording /\ pc'[t] # pc[t]) =>
                 /\ pc'[t] = Returned(t)
                 /\ UNCHANGED <<ctlVars, devVars, timerDeadline, locVars, deskVars,
                                viVars, logVars>>]_vars

\* C15 (witness): a start call is at its test while a capture is in progress
StartMeetsCapture == \E t \in Workers : pc[t] = "start_check" /\ recording

\* C16: a chunk is appended to the sample buffer only while the flag is set.
AppendOnlyWhileRecording ==
    [][Len(audio_frames') > Len(audio_frames) => recording]_vars

\* C17: when a stop call reads the sample buffer, no callback can still append
\* to it: none is between its test and its append, and no stream is running
\* with the flag set.
ReadAfterLastAppend ==
    \A t \in Threads :
        pc[t] = "stop_read" =>
            \A k \in Sessions :
                cb[k] # "append" /\ ~(streams[k] = "active" /\ recording)

ExitTerminates ==
    /\ (exitPc # "wait") ~> (proc # "running")
    /\ [](exitPc = "e_failed" => proc = "exit1")
    /\ [](exitPc = "e_done" => proc = "exit0")
    /\ [][proc = "running"]_vars

\* C19 (witness): the process has terminated after a teardown step failed
ExitedAfterFailure == proc = "exit1" /\ exitPc = "e_failed"

\* C20: once exit handling has begun, a session that is capturing is abandoned:
\* with no other controller call in flight, no stop request (hotkey or timer) is
\* accepted for it, so none of it reaches the engine, the clipboard or a paste.
ExitAbandonsCapture ==
    [][exitPc # "wait" =>
          \A t \in Threads :
              ~(/\ pc[t] = "stop_check"
                /\ pc'[t] = "stop_clear"
                /\ \A u \in Threads \ {t} :
                      pc[u] \in {"idle", "t_none", "t_pending", "t_cancelled", "t_done"})]_vars

\* C21: the timer of a session issues no stop request once a stop call
\* dispatched by the hotkey has stopped that session and is past its cancel step.
TimerSilentAfterManualStop ==
    [][\A k \in Sessions :
          (pc[TimerThread(k)] = "t_pending" /\ pc'[TimerThread(k)] = "stop_check")
              => ~\E t \in Workers :
                     /\ sid[t] = k
                     /\ Stopping(t)
                     /\ pc[t] \notin {"stop_vi", "stop_cancel"}]_vars

\* C22: a pass of the monitor loop changes nothing of the controller (flag,
\* buffer, stream, timer), of the streams, of the timers or of any request in
\* progress; it only counts warnings and sets its own flags.
MonitorOnlyObserves ==
    [][(monSleep = 0 /\ monSleep' = TICK_SEC) =>
          /\ UNCHANGED <<ctlVars, devVars, timerDeadline, pc, locVars, deskVars, logVars>>
          /\ vi'.recording = vi.recording /\ vi'.start_time = vi.start_time
          /\ vi'.running = vi.running]_vars

\* C22 (witness): the monitor has shown the 30-second warning of a capture
MonitorWarned == vi.n30 > 0 /\ recording

\* C23: the toggle listener issues a start request only when the controller is
\* idle: while a stop call is running the engine the request it issues is a
\* stop request.
ToggleStartsOnlyWhenIdle ==
    [][\A w \in Workers :
          (pc[w] = "idle" /\ pc'[w] = "start_check")
              => \A t \in Threads : pc[t] # "stop_engine"]_vars

\* C24: when the process has ended because the toggle listener's wait failed,
\* the exit handling has been performed: no stream is running, the temp file
\* is gone, the session log is closed and the indicator is shut down.
ListenerFailureTearsDown ==
    proc = "returned" =>
        /\ \A k \in Sessions : streams[k] # "active"
        /\ ~wavExists
        /\ session_file_path => logClosed
        /\ ~vi.running

\* C25: every stop call that passed the test on the flag returns, whatever
\* fails on its way, and between clearing the flag and returning it never sets
\* the flag again, so the test of a later start is not held closed by it.
WinningStopReturns ==
    /\ \A t \in Threads : (pc[t] = "stop_clear") ~> (pc[t] = Returned(t))
    /\ [][\A t \in Threads :
             (Stopping(t) /\ pc'[t] # pc[t]) =>
                 /\ recording' = recording
                 /\ pc'[t] = Returned(t) \/ Stopping(t)']_vars

\* C25 (witness): a stop call reaches its finally block after the engine raised
StopEndsAfterEngineRaised ==
    \E t \in Threads : pc[t] = "stop_finally" /\ "raised" \in did[t]

\* C26: no stop call writes both a success entry and a failure entry to the
\* session file.
OneEntryPerTranscription ==
    \A t \in Threads : ~({"ok_entry", "err_entry"} \subseteq did[t])

\* C27: the monitor shows a 30-second or 10-second warning only while the
\* controller's flag is set.
WarningsOnlyWhileCapturing ==
    [][(vi'.n30 > vi.n30 \/ vi'.n10 > vi.n10) => recording]_vars

\* C28: the buffer reset of a start call never empties a buffer that holds the
\* chunks of a session whose stop call has cleared the flag and not yet read them.
ResetSparesStoppingSession ==
    [][(nSessions' = nSessions + 1 /\ audio_frames # <<>>) =>
          ~\E t \in Threads :
               pc[t] \in {"stop_vi", "stop_cancel", "stop_stream", "stop_read"}]_vars

\* C29: a timer thread whose own session is over (its stream closed) never
\* clears the flag of a later session, one that is capturing with no other
\* request in progress, before that session's own deadline.
TimerStopsOwnSession ==
    [][\A k \in Sessions :
          (/\ pc[TimerThread(k)] = "stop_clear"
           /\ pc'[TimerThread(k)] = "stop_vi"
           /\ InFlight = 1
           /\ recording
           /\ nSessions # k
           /\ streams[k] = "closed"
           /\ streams[nSessions] = "active")
              => now >= timerDeadline[nSessions]]_vars

\* C30: whenever the flag is clear and no request is being handled, no capture
\* stream is running and no auto-stop timer is waiting.
IdleHoldsNoResources ==
    (Quiet /\ ~recording) =>
        \A k \in Sessions :
            streams[k] # "active" /\ pc[TimerThread(k)] # "t_pending"

\* C31: no start call replaces the handle of a stream that is still running,
\* nor the handle of a timer that is still waiting.
HandlesNeverOverwritten ==
    [][/\ (stream # None /\ stream' \notin {stream, None})
            => streams[stream] # "active"
       /\ (auto_stop_timer # None /\ auto_stop_timer' \notin {auto_stop_timer, None})
            => pc[auto_stop_timer] # "t_pending"]_vars

\* C32: whenever no start or stop call is executing, the indicator's recording
\* field equals the controller's flag.
IndicatorMatchesFlag == Quiet => (vi.recording = recording)

\* C33: what a stop call pastes is the text that same call copied: at the
\* paste the clipboard still holds the transcript of the session it stopped.
PasteOwnTranscript ==
    [][\A t \in Threads :
          (pc[t] = "stop_paste" /\ pc'[t] = "stop_finally") => clipboard = sid[t]]_vars

\* C34: when the session file could not be created, no logging call writes an
\* entry or a footer or counts a recording, and each returns to its caller,
\* which goes on as after any other return.
LoggerInertWithoutFile ==
    /\ [](~session_file_path =>
            /\ recording_count = 0
            /\ lastOrdinal = 0
            /\ ~logClosed
            /\ \A t \in Threads : did[t] \cap {"ok_entry", "err_entry"} = {})
    /\ [][~session_file_path =>
            /\ \A t \in Threads :
                  (pc[t] = "log_call" /\ pc'[t] # pc[t]) => pc'[t] = AfterLog(logKind[t])
            /\ (exitPc = "e_log" /\ exitPc' # exitPc) => exitPc' = "e_vi"]_vars

\* C34 (witness): with no session file, a stop call has passed its logging call
\* and the exit listener has passed close_session
LoggedWithoutFile ==
    /\ ~session_file_path
    /\ exitPc = "e_vi"
    /\ \E t \in Threads : "complete" \in did[t]

====
